---- MODULE Spec2Model ----
(***************************************************************************)
(* gsheet-pandas: DriveConnection (gsheet_pandas/adapter/connection.py),   *)
(* AsyncDriveConnection (gsheet_pandas/asyncio/adapter/connection.py) and  *)
(* the first revision of DriveConnection (gsheet-pandas/connection.py),    *)
(* together with the part of the Google Sheets / Drive service and of      *)
(* pandas that their operations rely on.                                   *)
(***************************************************************************)
EXTENDS Integers, Sequences, FiniteSets, TLC

VARIABLES
    variant,    \* which connection class is in use: "sync", "async" or "legacy"
    sheets,     \* the remote spreadsheet's sheets, in remote order: <<[title, sheetId]>>
    cells,      \* the remote grid stored under each sheet title
    folder,     \* the remote folder as the Drive service pages it: <<page>>, page = <<file>>
    op,         \* the operation called last: its name and arguments
    prev,       \* the operation called before it, and how that one ended
    local,      \* the local variables of an operation that is still running
    requests,   \* the remote requests issued by the operation called last, in order
    result,     \* how the operation called last ended: returned / raised / still running
    token_dir,  \* self.token_dir: None, or the path of the token store
    token_file, \* the token store file: None when it does not exist, else the credential in it
    auth,       \* what the credential code did during the operation called last (for
                \* concurrent downloads: since the connection was made), in order
    sessions,   \* the sessions the operation called last has built and closed
    aiogoogle,  \* self._aiogoogle: None, or the memoized client
    active_session, \* the memoized client's session: None, or the open session
    tasks       \* the downloads running concurrently on one AsyncDriveConnection

vars == <<variant, sheets, cells, folder, op, prev, local, requests, result,
          token_dir, token_file, auth, sessions, aiogoogle, active_session, tasks>>

(***************************************************************************)
(* Bounds of the model.                                                    *)
(***************************************************************************)
MaxGridRows == 3
MaxGridCols == 2
MaxRows == 2
MaxCols == 2
MaxAttempts == 3
MaxPages == 3
MaxPageSize == 1
MaxTasks == 2

(***************************************************************************)
(* Python scalars. A grid cell of the service is a JSON string, written as *)
(* a TLA+ string; a DataFrame cell or column label is a tagged value.      *)
(***************************************************************************)
PyStr(s) == [str |-> s]
PyInt(n) == [int |-> n]
None == [none |-> TRUE]

Max(S) == CHOOSE m \in S : \A n \in S : n <= m

\* Sequences over S of length at most n.
SeqsUpTo(S, n) == UNION {[1..k -> S] : k \in 0..n}

\* seq[a..b] with Python's clamping of slice bounds (1-based here).
Slice(seq, a, b) == [i \in 1..(IF b >= a THEN b - a + 1 ELSE 0) |-> seq[a + i - 1]]

(***************************************************************************)
(* pandas, as the operations use it.                                       *)
(***************************************************************************)
\* pd.DataFrame(data) for a list of lists: one row per list, as many columns
\* as the longest list, short rows padded with None, columns labelled 0..w-1.
DataFrame(data) ==
    LET w == Max({0} \cup {Len(data[r]) : r \in 1..Len(data)})
    IN  [columns |-> [j \in 1..w |-> PyInt(j - 1)],
         rows    |-> [r \in 1..Len(data) |->
                        [j \in 1..w |-> IF j <= Len(data[r]) THEN PyStr(data[r][j])
                                                             ELSE None]]]

\* pd.DataFrame(columns=columns): the labels and no rows.
EmptyDataFrame(columns) ==
    [columns |-> [j \in 1..Len(columns) |-> PyStr(columns[j])], rows |-> <<>>]

\* An assignment of labels that pads the frame up to the labels' count.
SetColumnsOkPadded(df, labels) == Len(labels) >= Len(df.columns)

\* Whether `df.columns = labels` is accepted: pandas raises ValueError
\* (length mismatch) unless there is one label per column.
SetColumnsOk(df, labels) == Len(labels) = Len(df.columns)

SetColumns(df, labels) ==
    [columns |-> [j \in 1..Len(labels) |-> PyStr(labels[j])], rows |-> df.rows]

(***************************************************************************)
(* The outcome of one remote call.                                         *)
(***************************************************************************)
Ok == [kind |-> "ok"]
Timeout == [kind |-> "timeout"]
Http(status) == [kind |-> "http", status |-> status]
HttpStatuses == {400, 403, 500}
Outcomes == {Ok, Timeout} \cup {Http(s) : s \in HttpStatuses}

\* What an operation raises when a remote call fails with outcome o.
Raised(o) ==
    IF o.kind = "timeout" THEN [kind |-> "raised", error |-> "socket.timeout"]
    ELSE [kind |-> "raised", error |-> "HttpError", status |-> o.status]

RaisedError(e) == [kind |-> "raised", error |-> e]
Returned(v) == [kind |-> "returned", value |-> v]
Running == [kind |-> "running"]
NotCalled == [kind |-> "none"]

(***************************************************************************)
(* Credentials: _get_service, _get_user_creds, _get_service_creds and       *)
(* _get_aiogoogle.                                                         *)
(***************************************************************************)
TokenPath == PyStr("token.json")

\* A credential as Credentials.from_authorized_user_file loads it from the
\* token store. token: it holds an access token; expired: its expiry has
\* passed; refresh_token: it holds a refresh token.
Credential(token, expired, refresh_token) ==
    [token |-> token, expired |-> expired, refresh_token |-> refresh_token]

\* creds.valid
Valid(creds) == creds.token /\ ~creds.expired

\* The answers of the authorization server to a refresh or to the code
\* exchange of the consent flow: a failure, or new tokens (the consent flow
\* may or may not hand out a refresh token).
ExchangeFailed == [ok |-> FALSE]
Exchanged(refresh_token) == [ok |-> TRUE, refresh_token |-> refresh_token]
Exchanges == {ExchangeFailed, Exchanged(TRUE), Exchanged(FALSE)}

\* What the credential code does, as entries of `auth`.
Exists(found) == [event |-> "exists", found |-> found]
Loaded(creds) == [event |-> "from_authorized_user_file", creds |-> creds]
Refresh(ok) == [event |-> "refresh", ok |-> ok]
RunLocalServer(ok) == [event |-> "run_local_server", ok |-> ok]
Write(creds) == [event |-> "write", creds |-> creds]
LoadedKeyFile == [event |-> "from_service_account_file"]

\* os.path.exists(self.token_dir), and from_authorized_user_file when it does.
LoadStored(tf) == IF tf = None THEN <<Exists(FALSE)>> ELSE <<Exists(TRUE), Loaded(tf)>>

\* The credential after creds.refresh(Request()): a new access token and
\* expiry, the refresh token kept.
Refreshed(creds) == Credential(TRUE, FALSE, creds.refresh_token)

\* A credential lookup that saves the credential on every call that ends well.
GetUserCredsAlwaysWrites(tf, x) ==
    LET creds == tf
    IN  IF creds # None /\ Valid(creds)
        THEN [ok |-> TRUE, creds |-> "user", events |-> LoadStored(tf) \o <<Write(creds)>>,
              token_file |-> tf]
        ELSE IF creds # None /\ creds.expired /\ creds.refresh_token
        THEN IF x.ok
             THEN [ok |-> TRUE, creds |-> "user",
                   events |-> LoadStored(tf) \o <<Refresh(TRUE), Write(Refreshed(creds))>>,
                   token_file |-> Refreshed(creds)]
             ELSE [ok |-> FALSE, error |-> "RefreshError",
                   events |-> LoadStored(tf) \o <<Refresh(FALSE)>>, token_file |-> tf]
        ELSE IF x.ok
             THEN [ok |-> TRUE, creds |-> "user",
                   events |-> LoadStored(tf) \o
                              <<RunLocalServer(TRUE),
                                Write(Credential(TRUE, FALSE, x.refresh_token))>>,
                   token_file |-> Credential(TRUE, FALSE, x.refresh_token)]
             ELSE [ok |-> FALSE, error |-> "ConsentError",
                   events |-> LoadStored(tf) \o <<RunLocalServer(FALSE)>>, token_file |-> tf]

\* _get_user_creds (and the first revision's _get_service up to `build`) with
\* the token store holding tf and the authorization server answering x:
\*   creds = the stored credential when the file exists, else None;
\*   if not creds or not creds.valid:
\*       if creds and creds.expired and creds.refresh_token: creds.refresh(...)
\*       else: creds = flow.run_local_server(port=0)
\*       write creds to the token store
\* A failing refresh or consent raises before the write.
GetUserCreds(tf, x) ==
    LET creds == tf
    IN  IF creds # None /\ Valid(creds)
        THEN [ok |-> TRUE, creds |-> "user", events |-> LoadStored(tf), token_file |-> tf]
        ELSE IF creds # None /\ creds.expired /\ creds.refresh_token
        THEN IF x.ok
             THEN [ok |-> TRUE, creds |-> "user",
                   events |-> LoadStored(tf) \o <<Refresh(TRUE), Write(Refreshed(creds))>>,
                   token_file |-> Refreshed(creds)]
             ELSE [ok |-> FALSE, error |-> "RefreshError",
                   events |-> LoadStored(tf) \o <<Refresh(FALSE)>>, token_file |-> tf]
        ELSE IF x.ok
             THEN [ok |-> TRUE, creds |-> "user",
                   events |-> LoadStored(tf) \o
                              <<RunLocalServer(TRUE),
                                Write(Credential(TRUE, FALSE, x.refresh_token))>>,
                   token_file |-> Credential(TRUE, FALSE, x.refresh_token)]
             ELSE [ok |-> FALSE, error |-> "ConsentError",
                   events |-> LoadStored(tf) \o <<RunLocalServer(FALSE)>>, token_file |-> tf]

\* _get_service_creds: the key file is read, nothing else.
GetServiceCreds(tf) ==
    [ok |-> TRUE, creds |-> "service_account", events |-> <<LoadedKeyFile>>,
     token_file |-> tf]

\* A choice of the credential variant by what is on disk instead of by token_dir.
UsesServiceAccountIfNoTokenFile == variant # "legacy" /\ token_file = None

\* `if self.token_dir is None`; the first revision has the user variant only.
UsesServiceAccount == variant # "legacy" /\ token_dir = None

\* The credential part of one call of _get_service.
GetCreds(tf, x) == IF UsesServiceAccount THEN GetServiceCreds(tf) ELSE GetUserCreds(tf, x)

\* n calls of _get_service one after the other; the first that fails ends them.
RECURSIVE GetServices(_, _, _)
GetServices(n, tf, x) ==
    LET a == GetCreds(tf, x)
    IN  IF n <= 1 \/ ~a.ok THEN a
        ELSE LET b == GetServices(n - 1, a.token_file, x)
             IN  [b EXCEPT !.events = a.events \o @]

\* The client that _get_aiogoogle builds when called from task t.
Client(creds, t) == [creds |-> creds, by |-> t]

\* A _get_aiogoogle that builds a client on every call.
GetAiogoogleEveryCall(memo, tf, x, t) ==
    LET a == GetCreds(tf, x)
    IN  IF a.ok THEN a @@ [aiogoogle |-> Client(a.creds, t)]
        ELSE a @@ [aiogoogle |-> memo]

\* _get_aiogoogle called from task t with self._aiogoogle = memo: the client
\* is built, from freshly loaded credentials, only while there is none.
GetAiogoogle(memo, tf, x, t) ==
    IF memo # None
    THEN [ok |-> TRUE, creds |-> memo.creds, events |-> <<>>, token_file |-> tf,
          aiogoogle |-> memo]
    ELSE LET a == GetCreds(tf, x)
         IN  IF a.ok THEN a @@ [aiogoogle |-> Client(a.creds, t)]
             ELSE a @@ [aiogoogle |-> None]

\* What an operation obtains before its request: n services (sync and first
\* revision) or the memoized client (async).
Authenticate(n, x) ==
    IF variant = "async" THEN GetAiogoogle(aiogoogle, token_file, x, 0)
    ELSE GetServices(n, token_file, x) @@ [aiogoogle |-> aiogoogle]

\* The answers of the authorization server that an operation starting now can
\* tell apart: it asks the server only when it has to refresh or to consent.
ExchangesNow ==
    IF /\ ~UsesServiceAccount
       /\ variant = "async" => aiogoogle = None
       /\ (token_file = None \/ ~Valid(token_file))
    THEN Exchanges
    ELSE {Exchanged(TRUE)}

\* The effect of the credential code on the connection and on the token store.
Authenticated(earlier, a) ==
    /\ auth' = earlier \o a.events
    /\ token_file' = a.token_file
    /\ aiogoogle' = a.aiogoogle

\* The credentials a request goes out with: those the service was built from
\* (sync), or as_service_account / as_user by `self.token_dir is None` (async).
RequestCredentials(a) ==
    IF variant = "async"
    THEN (IF token_dir = None THEN "service_account" ELSE "user")
    ELSE a.creds

\* Sessions built and closed by an operation.
Sessions(built, closed) == [built |-> built, closed |-> closed]

(***************************************************************************)
(* The Sheets service: spreadsheets.values.get.                            *)
(***************************************************************************)
\* A row without its trailing empty cells.
RECURSIVE TrimRow(_)
TrimRow(row) ==
    IF row = <<>> THEN <<>>
    ELSE IF row[Len(row)] = "" THEN TrimRow(SubSeq(row, 1, Len(row) - 1))
    ELSE row

\* A grid without its trailing empty rows.
RECURSIVE TrimRows(_)
TrimRows(grid) ==
    IF grid = <<>> THEN <<>>
    ELSE IF grid[Len(grid)] = <<>> THEN TrimRows(SubSeq(grid, 1, Len(grid) - 1))
    ELSE grid

\* The service omits trailing empty rows and trailing empty cells.
Trim(grid) == TrimRows([r \in 1..Len(grid) |-> TrimRow(grid[r])])

\* The responses the service may give to values.get on a stored grid: the
\* 'values' key is left out when there is nothing to return.
ValuesGetResponses(grid) ==
    IF Trim(grid) = <<>>
    THEN {[range |-> "A1:ZZ900000"], [range |-> "A1:ZZ900000", values |-> <<>>]}
    ELSE {[range |-> "A1:ZZ900000", values |-> Trim(grid)]}

\* result.get(key, default) of a response dictionary.
Get(response, key, default) ==
    IF key \in DOMAIN response THEN response[key] ELSE default

(***************************************************************************)
(* download: the part after the response has arrived.                      *)
(***************************************************************************)
\* Synthesized names counted from 1 instead of 0.
UnknownColumnsFromOne(n) == [i \in 1..(IF n > 0 THEN n ELSE 0) |-> "Unknown " \o ToString(i)]

\* [f'Unknown {i}' for i in range(n)]
UnknownColumns(n) == [i \in 1..(IF n > 0 THEN n ELSE 0) |-> "Unknown " \o ToString(i - 1)]

\* download with a header index h >= 0, from `columns = values[header]` on.
HeaderTable(values, h) ==
    IF h + 1 > Len(values) THEN RaisedError("IndexError")
    ELSE LET columns == values[h + 1]
             data == Slice(values, h + 2, Len(values))
         IN  IF Len(data) = 0 THEN Returned(EmptyDataFrame(columns))
             ELSE LET df == DataFrame(data)
                      labels == IF Len(df.columns) > Len(columns)
                                THEN columns \o UnknownColumns(Len(df.columns) - Len(columns))
                                ELSE columns
                  IN  IF SetColumnsOk(df, labels) THEN Returned(SetColumns(df, labels))
                      ELSE RaisedError("ValueError")

\* A download that tests the header argument before the emptiness of `values`.
DownloadTableHeaderFirst(values, header) ==
    IF header = None THEN Returned(DataFrame(values))
    ELSE IF values = <<>> THEN RaisedError("Empty data")
    ELSE HeaderTable(values, header.int)

\* A download that takes `header=None` for `header=0` (`if not header`).
DownloadTableNoneAsZero(values, header) ==
    IF values = <<>> THEN RaisedError("Empty data")
    ELSE HeaderTable(values, IF header = None THEN 0 ELSE header.int)

\* DriveConnection.download / AsyncDriveConnection.download, from `values` on.
\* header is None or PyInt(h), h >= 0.
DownloadTable(values, header) ==
    IF values = <<>> THEN RaisedError("Empty data")
    ELSE IF header = None THEN Returned(DataFrame(values))
    ELSE HeaderTable(values, header.int)

\* The first revision's download: pd.DataFrame(values[1:], columns=values[0]),
\* which pandas refuses when the widest data row and the header differ in length.
LegacyDownloadTable(values) ==
    IF values = <<>> THEN RaisedError("Empty data")
    ELSE LET columns == values[1]
             data == Slice(values, 2, Len(values))
             df == DataFrame(data)
         IN  IF Len(data) = 0 THEN Returned(EmptyDataFrame(columns))
             ELSE IF SetColumnsOk(df, columns) THEN Returned(SetColumns(df, columns))
             ELSE RaisedError("ValueError")

SheetNames == {"test", "test2"}
DefaultRange == "!A1:ZZ900000"

Idle == [name |-> "none"]
NoLocal == [pc |-> "none"]

Titles == {sheets[i].title : i \in 1..Len(sheets)}

\* The caller starts operation o: no operation of this connection is running.
Call(o) ==
    /\ result.kind # "running"
    /\ op' = o
    /\ prev' = [op |-> op, result |-> result]

\* The sessions of one download whose request ended with `outcome`.
\*   sync / first revision: `service = self._get_service()` and a second
\*   `self._get_service()` build one session each; `service.close()` closes
\*   the first, and only after a request that did not raise;
\*   async: `async with` opens the client's session and closes it on the way out.
DownloadSessions(outcome) ==
    IF variant = "async" THEN Sessions(1, 1)
    ELSE Sessions(2, IF outcome = Ok THEN 1 ELSE 0)

\* download(spreadsheet_id, sheet_name, range_name, header): one values.get
\* request, then the conversion of its response.
download(sheet_name, header, outcome, response) ==
    /\ variant = "legacy" => header = PyInt(0)
    /\ response \in ValuesGetResponses(cells[sheet_name])
    /\ outcome = Ok => sheet_name \in {sheets[i].title : i \in 1..Len(sheets)}
    /\ Call([name |-> "download", sheet_name |-> sheet_name, header |-> header])
    /\ \E x \in ExchangesNow :
          LET a == Authenticate(2, x)
          IN  /\ Authenticated(<<>>, a)
              /\ IF ~a.ok
                 THEN /\ requests' = <<>>
                      /\ result' = RaisedError(a.error)
                      /\ sessions' = Sessions(0, 0)
                 ELSE /\ requests' =
                           <<[method |-> "values.get", range |-> sheet_name \o DefaultRange,
                              credentials |-> RequestCredentials(a),
                              outcome |-> outcome,
                              response |-> IF outcome = Ok THEN response
                                           ELSE [failed |-> TRUE]]>>
                      /\ result' = IF outcome # Ok THEN Raised(outcome)
                                   ELSE IF variant = "legacy"
                                   THEN LegacyDownloadTable(Get(response, "values", <<>>))
                                   ELSE DownloadTable(Get(response, "values", <<>>), header)
                      /\ sessions' = DownloadSessions(outcome)
    /\ UNCHANGED <<variant, sheets, cells, folder, local, token_dir, active_session, tasks>>

(***************************************************************************)
(* upload.                                                                 *)
(***************************************************************************)
\* datetime.date(y, m, d), Decimal(d) written as its literal, and a float
\* written as its repr.
PyDate(y, m, d) == [date |-> <<y, m, d>>]
PyDecimal(d) == [decimal |-> d]
PyFloat(f) == [float |-> f]

\* str(x) of a date: ISO format, month and day in two digits.
Pad2(n) == IF n < 10 THEN "0" \o ToString(n) ELSE ToString(n)
DateStr(date) == ToString(date[1]) \o "-" \o Pad2(date[2]) \o "-" \o Pad2(date[3])

\* repr(float(Decimal(d))) for the decimals of the model: the nearest double,
\* without the decimal's trailing zeros and beyond-double digits.
FloatOf(d) ==
    IF d = "0.10" THEN "0.1"
    ELSE IF d = "2.00000000000000000001" THEN "2.0"
    ELSE d

\* A _fix_dtypes without its fillna('').
FixCellKeepNull(x) ==
    IF x = None THEN x
    ELSE IF "date" \in DOMAIN x THEN PyStr(DateStr(x.date))
    ELSE IF "decimal" \in DOMAIN x THEN PyFloat(FloatOf(x.decimal))
    ELSE x

\* One cell through _fix_dtypes: fillna(''), then str() of a date/time,
\* then float() of a Decimal.
FixCell(x) ==
    IF x = None THEN PyStr("")
    ELSE IF "date" \in DOMAIN x THEN PyStr(DateStr(x.date))
    ELSE IF "decimal" \in DOMAIN x THEN PyFloat(FloatOf(x.decimal))
    ELSE x

fix_dtypes(df) ==
    [columns |-> df.columns,
     rows |-> [r \in 1..Len(df.rows) |-> [j \in 1..Len(df.rows[r]) |-> FixCell(df.rows[r][j])]]]

\* A serialization that sends the column-name row whatever drop_columns is.
SerializeKeepHeader(df, drop_columns) == <<df.columns>> \o df.rows

\* values = df.T.reset_index().T.values.tolist()
\* if drop_columns: values = df.values.tolist()
Serialize(df, drop_columns) ==
    IF drop_columns THEN df.rows ELSE <<df.columns>> \o df.rows

\* The grid that one invocation of upload sends; the first revision has no
\* _fix_dtypes.
UploadValues(df, drop_columns) ==
    IF variant = "legacy" THEN Serialize(df, drop_columns)
    ELSE Serialize(fix_dtypes(df), drop_columns)

\* Whether json.dumps accepts the request body: it has no encoding for a
\* date or a Decimal (None goes out as null).
JsonSerializable(values) ==
    \A r \in 1..Len(values) : \A j \in 1..Len(values[r]) :
       "date" \notin DOMAIN values[r][j] /\ "decimal" \notin DOMAIN values[r][j]

ValueInputOptions == {"INPUT_VALUE_OPTION_UNSPECIFIED", "RAW", "USER_ENTERED"}

\* The string the service returns for a cell written with JSON value v.
Render(v) ==
    IF "str" \in DOMAIN v THEN v.str
    ELSE IF "int" \in DOMAIN v THEN ToString(v.int)
    ELSE IF "float" \in DOMAIN v THEN v.float
    ELSE ""

\* The Sheets service: spreadsheets.values.update of `values` at A1. A cell
\* the values cover takes the new value (a JSON null leaves it as it was);
\* every other cell keeps what it held: nothing is cleared.
ValuesUpdate(grid, values) ==
    LET n == Max({Len(grid), Len(values)})
        old(i) == IF i <= Len(grid) THEN grid[i] ELSE <<>>
        new(i) == IF i <= Len(values) THEN values[i] ELSE <<>>
        kept(i, j) == IF j <= Len(old(i)) THEN old(i)[j] ELSE ""
    IN  Trim([i \in 1..n |->
                [j \in 1..Max({Len(old(i)), Len(new(i))}) |->
                    IF j <= Len(new(i)) /\ new(i)[j] # None
                    THEN Render(new(i)[j])
                    ELSE kept(i, j)]])

\* The valueInputOption of upload's request: the caller's value_input_option;
\* the first revision's upload has no such parameter and sends 'RAW'.
RequestValueInputOption(value_input_option) ==
    IF variant = "legacy" THEN "RAW" ELSE value_input_option

\* The sessions of one invocation of upload whose request ended with `outcome`:
\* `service.close()` comes after the request, inside the `try` (sync and first
\* revision); `async with` closes on the way out (async).
UploadSessions(outcome) ==
    IF variant = "async" THEN Sessions(1, 1)
    ELSE Sessions(1, IF outcome = Ok THEN 1 ELSE 0)

\* One invocation of upload after `earlier` requests: serialize, get the
\* service, send one values.update request, and handle its outcome.
\*   sync / async: every failure is raised again;
\*   first revision: a socket.timeout sleeps and calls upload again with
\*   (df, drive_table, sheet_name, range_name); any other error is printed.
UploadAttempt(earlier, df, sheet_name, drop_columns, value_input_option, outcome) ==
    LET values == UploadValues(df, drop_columns)
    IN  /\ outcome = Ok => sheet_name \in Titles
        /\ \E x \in ExchangesNow :
              LET a == Authenticate(1, x)
                  s == UploadSessions(outcome)
              IN  /\ Authenticated(IF earlier = <<>> THEN <<>> ELSE auth, a)
                  /\ IF ~a.ok
                     THEN /\ requests' = earlier
                          /\ cells' = cells
                          /\ sessions' = IF earlier = <<>> THEN Sessions(0, 0) ELSE sessions
                          /\ local' = NoLocal
                          /\ result' = IF variant = "legacy" THEN Returned(None)
                                       ELSE RaisedError(a.error)
                     ELSE IF ~JsonSerializable(values)
                     THEN /\ requests' = earlier
                          /\ cells' = cells
                          /\ sessions' = IF earlier = <<>> THEN Sessions(1, 0)
                                         ELSE Sessions(sessions.built + 1, sessions.closed)
                          /\ local' = NoLocal
                          /\ result' = IF variant = "legacy" THEN Returned(None)
                                       ELSE RaisedError("TypeError")
                     ELSE /\ requests' = Append(earlier,
                                 [method |-> "values.update",
                                  range |-> sheet_name \o DefaultRange,
                                  credentials |-> RequestCredentials(a),
                                  valueInputOption |->
                                      RequestValueInputOption(value_input_option),
                                  body |-> [majorDimension |-> "ROWS", values |-> values],
                                  outcome |-> outcome])
                          /\ cells' = IF outcome = Ok
                                      THEN [cells EXCEPT ![sheet_name] = ValuesUpdate(@, values)]
                                      ELSE cells
                          /\ sessions' = IF earlier = <<>> THEN s
                                         ELSE Sessions(sessions.built + s.built,
                                                       sessions.closed + s.closed)
                          /\ IF outcome = Ok
                             THEN result' = Returned(None) /\ local' = NoLocal
                             ELSE IF variant # "legacy"
                             THEN result' = Raised(outcome) /\ local' = NoLocal
                             ELSE IF outcome = Timeout
                             THEN /\ result' = Running
                                  /\ local' = [pc |-> "retry", df |-> df,
                                               sheet_name |-> sheet_name]
                             ELSE result' = Returned(None) /\ local' = NoLocal

\* upload(df, spreadsheet_id, sheet_name, range_name, drop_columns, value_input_option)
upload(df, sheet_name, drop_columns, value_input_option, outcome) ==
    /\ Call([name |-> "upload", df |-> df, sheet_name |-> sheet_name,
             drop_columns |-> drop_columns, value_input_option |-> value_input_option])
    /\ UploadAttempt(<<>>, df, sheet_name, drop_columns, value_input_option, outcome)
    /\ UNCHANGED <<variant, sheets, folder, token_dir, active_session, tasks>>

\* The first revision's recursive call after a socket.timeout:
\* self.upload(df, drive_table, sheet_name, range_name).
upload_retry(outcome) ==
    /\ result = Running
    /\ local.pc = "retry"
    /\ Len(requests) < MaxAttempts
    /\ UploadAttempt(requests, local.df, local.sheet_name, FALSE, "RAW", outcome)
    /\ UNCHANGED <<variant, sheets, folder, op, prev, token_dir, active_session, tasks>>

(***************************************************************************)
(* get_sheets_names and create_sheet.                                      *)
(***************************************************************************)
PyList(l) == [list |-> l]

\* The sessions of one get_sheets_names: the sync method has no
\* `service.close()`.
GetSheetsNamesSessions ==
    IF variant = "async" THEN Sessions(1, 1) ELSE Sessions(1, 0)

\* get_sheets_names(spreadsheet_id): one spreadsheets.get request; the titles
\* in the order of the response. Not in the first revision.
get_sheets_names(outcome) ==
    /\ variant # "legacy"
    /\ Call([name |-> "get_sheets_names"])
    /\ \E x \in ExchangesNow :
          LET a == Authenticate(1, x)
          IN  /\ Authenticated(<<>>, a)
              /\ IF ~a.ok
                 THEN /\ requests' = <<>>
                      /\ result' = RaisedError(a.error)
                      /\ sessions' = Sessions(0, 0)
                 ELSE /\ requests' = <<[method |-> "spreadsheets.get",
                                        credentials |-> RequestCredentials(a),
                                        outcome |-> outcome]>>
                      /\ result' =
                            IF outcome = Ok
                            THEN Returned(PyList([i \in 1..Len(sheets) |->
                                                    PyStr(sheets[i].title)]))
                            ELSE Raised(outcome)
                      /\ sessions' = GetSheetsNamesSessions
    /\ UNCHANGED <<variant, sheets, cells, folder, local, token_dir, active_session, tasks>>

\* The Sheets service: the answers it may give to an addSheet request. A title
\* that is already in the spreadsheet is refused with status 400.
AddSheetOutcomes(sheet_name) ==
    IF sheet_name \in Titles THEN Outcomes \ {Ok} ELSE Outcomes

\* The identifier the service gives to a new sheet.
NewSheetId == Max({-1} \cup {sheets[i].sheetId : i \in 1..Len(sheets)}) + 1

\* A handler that turns every 4xx status into None.
CreateSheetResultAny4xx(outcome, sheetId) ==
    IF outcome = Ok THEN Returned(PyInt(sheetId))
    ELSE IF outcome.kind = "http" /\ outcome.status >= 400 /\ outcome.status < 500
    THEN Returned(None)
    ELSE Raised(outcome)

\* create_sheet's handling of the batchUpdate outcome:
\*   return response['replies'][0]['addSheet']['properties']['sheetId'], or
\*   None when the error's status code is 400, else raise.
CreateSheetResult(outcome, sheetId) ==
    IF outcome = Ok THEN Returned(PyInt(sheetId))
    ELSE IF outcome.kind = "http" /\ outcome.status = 400 THEN Returned(None)
    ELSE Raised(outcome)

\* The sessions of one create_sheet: the sync method reaches `service.close()`
\* only when the request did not raise (not on the 400 that returns None).
CreateSheetSessions(outcome) ==
    IF variant = "async" THEN Sessions(1, 1)
    ELSE Sessions(1, IF outcome = Ok THEN 1 ELSE 0)

\* create_sheet(spreadsheet_id, sheet_name). Not in the first revision.
create_sheet(sheet_name, outcome) ==
    /\ variant # "legacy"
    /\ outcome \in AddSheetOutcomes(sheet_name)
    /\ Call([name |-> "create_sheet", sheet_name |-> sheet_name])
    /\ \E x \in ExchangesNow :
          LET a == Authenticate(1, x)
          IN  /\ Authenticated(<<>>, a)
              /\ IF ~a.ok
                 THEN /\ requests' = <<>>
                      /\ sheets' = sheets
                      /\ result' = RaisedError(a.error)
                      /\ sessions' = Sessions(0, 0)
                 ELSE /\ requests' =
                           <<[method |-> "spreadsheets.batchUpdate",
                              credentials |-> RequestCredentials(a),
                              body |-> [requests |-> <<[addSheet |->
                                           [properties |-> [title |-> sheet_name]]]>>],
                              outcome |-> outcome]>>
                      /\ sheets' = IF outcome = Ok
                                   THEN Append(sheets, [title |-> sheet_name,
                                                        sheetId |-> NewSheetId])
                                   ELSE sheets
                      /\ result' = CreateSheetResult(outcome, NewSheetId)
                      /\ sessions' = CreateSheetSessions(outcome)
    /\ UNCHANGED <<variant, cells, folder, local, token_dir, active_session, tasks>>

(***************************************************************************)
(* get_all_files_in_folder.                                                *)
(***************************************************************************)
PageToken(k) == [token |-> k]

\* The Drive service: the answers it may give to files.list with page_token.
\* The first request (no token) gets the first page; a page that is not the
\* last comes with the token of the next one.
FilesListResponses(page_token) ==
    LET k == IF page_token = None THEN 1 ELSE page_token.token
        more == IF k < Len(folder) THEN [nextPageToken |-> PageToken(k + 1)]
                ELSE [kind |-> "drive#fileList"]
    IN  {more @@ [files |-> folder[k]]}
        \cup (IF folder[k] = <<>> THEN {more} ELSE {})

\* The loop body that keeps only the page read last.
ExtendFilesReplace(files, response) == Get(response, "files", <<>>)

\* files.extend(response.get('files', []))
ExtendFiles(files, response) == files \o Get(response, "files", <<>>)

\* The session the memoized client holds open while task t is inside its
\* `async with`; n counts the sessions that task has made the client open.
Session(t, n) == [task |-> t, n |-> n]

\* One turn of the loop of get_all_files_in_folder after `earlier` requests.
\*   sync / first revision: the turn gets a service of its own and never
\*   closes it; async: one `async with` around the whole loop;
\*   sync / async: every failure is raised;
\*   first revision: an HttpError is printed and the files read so far are
\*   returned; a socket.timeout is not caught.
ListPage(earlier, files, page_token, outcome, response) ==
    /\ response \in FilesListResponses(page_token)
    /\ \E x \in ExchangesNow :
          LET a == Authenticate(1, x)
              more == a.ok /\ outcome = Ok /\ Get(response, "nextPageToken", None) # None
              built == IF earlier = <<>> THEN 0 ELSE sessions.built
          IN  /\ Authenticated(IF earlier = <<>> THEN <<>> ELSE auth, a)
              /\ sessions' = IF ~a.ok THEN Sessions(built, IF variant = "async" THEN built ELSE 0)
                             ELSE IF variant = "async"
                             THEN Sessions(1, IF more THEN 0 ELSE 1)
                             ELSE Sessions(built + 1, 0)
              /\ active_session' = IF variant = "async" /\ more THEN Session(0, 1) ELSE None
              /\ IF ~a.ok
                 THEN /\ requests' = earlier
                      /\ local' = NoLocal
                      /\ result' = RaisedError(a.error)
                 ELSE /\ requests' = Append(earlier,
                             [method |-> "files.list", pageSize |-> 100,
                              pageToken |-> page_token,
                              credentials |-> RequestCredentials(a),
                              outcome |-> outcome,
                              response |-> IF outcome = Ok THEN response
                                           ELSE [failed |-> TRUE]])
                      /\ IF outcome = Ok
                         THEN IF ~more
                              THEN /\ result' = Returned(PyList(ExtendFiles(files, response)))
                                   /\ local' = NoLocal
                              ELSE /\ result' = Running
                                   /\ local' = [pc |-> "list",
                                                files |-> ExtendFiles(files, response),
                                                page_token |-> response.nextPageToken]
                         ELSE /\ local' = NoLocal
                              /\ result' = IF variant = "legacy" /\ outcome.kind = "http"
                                           THEN Returned(PyList(files))
                                           ELSE Raised(outcome)

\* get_all_files_in_folder(folder_id), up to the end of the first turn of its loop.
get_all_files_in_folder(outcome, response) ==
    /\ Call([name |-> "get_all_files_in_folder"])
    /\ ListPage(<<>>, <<>>, None, outcome, response)
    /\ UNCHANGED <<variant, sheets, cells, folder, token_dir, tasks>>

\* A later turn of the loop.
list_next_page(outcome, response) ==
    /\ result = Running
    /\ local.pc = "list"
    /\ ListPage(requests, local.files, local.page_token, outcome, response)
    /\ UNCHANGED <<variant, sheets, cells, folder, op, prev, token_dir, tasks>>

(***************************************************************************)
(* AsyncDriveConnection.download as a coroutine: its steps between awaits,  *)
(* for downloads that run concurrently on one connection.                  *)
(***************************************************************************)
\* The entry of `auth` for a call of _get_aiogoogle that returned `client`.
GotClient(t, client) == [event |-> "_get_aiogoogle", task |-> t, client |-> client]

\* A request that was in flight on a session closed under it.
Closed == [kind |-> "closed"]

\* The answers a request of task t may get: the service's while the session
\* it was sent on is the client's open session; once that session has been
\* closed the response either had arrived already or the connection is gone.
Answers(t) ==
    IF active_session = tasks[t].session THEN {Ok, Http(500)} ELSE {Ok, Closed}

\* What the coroutine raises for a failed request.
RaisedBy(o) == IF o = Closed THEN RaisedError("ClientConnectionError") ELSE Raised(o)

\* Aiogoogle's session for the next request of task t: the open one, or a new
\* one when the client holds none.
EnsureSession(t, made) == IF active_session = None THEN Session(t, made + 1) ELSE active_session

\* Leaving `async with` with outcome r: the client closes its session and
\* forgets it; with no session left to close the exit itself fails.
Exit(r) == IF active_session = None THEN RaisedError("AttributeError") ELSE r

DoneTask(task, r, answered) ==
    [pc |-> "done", sheet_name |-> task.sheet_name, header |-> task.header,
     answered |-> answered, result |-> r]

\* download up to its first suspension: `await self._get_aiogoogle()`, entry
\* into `async with`, and the discovery request of aiogoogle.discover.
download_begin(t, sheet_name, header) ==
    /\ variant = "async"
    /\ tasks[t].pc = "idle"
    /\ \E x \in ExchangesNow :
          LET a == GetAiogoogle(aiogoogle, token_file, x, t)
              session == EnsureSession(t, 0)
          IN  /\ token_file' = a.token_file
              /\ aiogoogle' = a.aiogoogle
              /\ IF ~a.ok
                 THEN /\ auth' = auth \o a.events
                      /\ active_session' = active_session
                      /\ tasks' = [tasks EXCEPT ![t] =
                                     [pc |-> "done", sheet_name |-> sheet_name,
                                      header |-> header, answered |-> FALSE,
                                      result |-> RaisedError(a.error)]]
                 ELSE /\ auth' = auth \o a.events \o <<GotClient(t, a.aiogoogle)>>
                      /\ active_session' = session
                      /\ tasks' = [tasks EXCEPT ![t] =
                                     [pc |-> "discover", sheet_name |-> sheet_name,
                                      header |-> header, session |-> session,
                                      made |-> IF active_session = None THEN 1 ELSE 0]]
    /\ UNCHANGED <<variant, sheets, cells, folder, op, prev, local, requests, result,
                   token_dir, sessions>>

\* The discovery document arrives, or its request fails; then the values.get
\* request goes out through as_service_account / as_user.
download_discovered(t, answer) ==
    /\ tasks[t].pc = "discover"
    /\ answer \in Answers(t)
    /\ IF answer = Ok
       THEN LET session == EnsureSession(t, tasks[t].made)
            IN  /\ active_session' = session
                /\ tasks' = [tasks EXCEPT ![t] =
                               [@ EXCEPT !.pc = "get", !.session = session,
                                         !.made = IF active_session = None THEN @ + 1 ELSE @]]
       ELSE /\ active_session' = None
            /\ tasks' = [tasks EXCEPT ![t] = DoneTask(@, Exit(RaisedBy(answer)), FALSE)]
    /\ UNCHANGED <<variant, sheets, cells, folder, op, prev, local, requests, result,
                   token_dir, token_file, auth, sessions, aiogoogle>>

\* The values.get response arrives, or the request fails; the response is
\* converted and the coroutine leaves `async with`.
download_end(t, answer, response) ==
    /\ tasks[t].pc = "get"
    /\ answer \in Answers(t)
    /\ response \in ValuesGetResponses(cells[tasks[t].sheet_name])
    /\ active_session' = None
    /\ tasks' = [tasks EXCEPT ![t] =
                   DoneTask(@, Exit(IF answer = Ok
                                    THEN DownloadTable(Get(response, "values", <<>>), @.header)
                                    ELSE RaisedBy(answer)),
                            answer = Ok)]
    /\ UNCHANGED <<variant, sheets, cells, folder, op, prev, local, requests, result,
                   token_dir, token_file, auth, sessions, aiogoogle>>

\* The caller cancels the task while it awaits a response: CancelledError is
\* raised at the await and the coroutine leaves `async with`.
download_cancel(t) ==
    /\ tasks[t].pc \in {"discover", "get"}
    /\ active_session' = None
    /\ tasks' = [tasks EXCEPT ![t] = DoneTask(@, Exit(RaisedError("CancelledError")), FALSE)]
    /\ UNCHANGED <<variant, sheets, cells, folder, op, prev, local, requests, result,
                   token_dir, token_file, auth, sessions, aiogoogle>>

(***************************************************************************)
(* Connections as constructed.                                             *)
(***************************************************************************)
Variants == {"sync", "async", "legacy"}

UploadRetry == \E outcome \in Outcomes : upload_retry(outcome)

TaskIds == 1..MaxTasks
IdleTask == [pc |-> "idle"]

\* A connection right after __init__ whose credentials are at hand: a
\* service-account key file (sync, async), or a token store that holds a
\* valid credential (first revision, which has the user variant only).
ReadyConnection ==
    /\ token_dir = IF variant = "legacy" THEN TokenPath ELSE None
    /\ token_file = IF variant = "legacy" THEN Credential(TRUE, FALSE, TRUE) ELSE None
    /\ auth = <<>>
    /\ sessions = Sessions(0, 0)
    /\ aiogoogle = None
    /\ active_session = None
    /\ tasks = [t \in TaskIds |-> IdleTask]

(***************************************************************************)
(* Grids the service can hold and return.                                  *)
(***************************************************************************)
GridCells == {"a", "b"}
GridRowsSet == SeqsUpTo(GridCells, MaxGridCols)
Grids == {g \in SeqsUpTo(GridRowsSet, MaxGridRows) : Trim(g) = g}

Headers == {None} \cup {PyInt(h) : h \in 0..MaxGridRows}

(***************************************************************************)
(* Downloads of every grid under every header argument.                    *)
(***************************************************************************)
InitDownload ==
    /\ variant \in {"sync", "async"}
    /\ sheets = <<[title |-> "test", sheetId |-> 0]>>
    /\ \E g \in Grids : cells = [t \in SheetNames |-> IF t = "test" THEN g ELSE <<>>]
    /\ folder = <<>>
    /\ op = Idle
    /\ prev = [op |-> Idle, result |-> NotCalled]
    /\ local = NoLocal
    /\ requests = <<>>
    /\ result = NotCalled
    /\ ReadyConnection

NextDownload ==
    /\ op = Idle
    /\ \E header \in Headers, response \in ValuesGetResponses(cells["test"]) :
          download("test", header, Ok, response)

SpecDownload == InitDownload /\ [][NextDownload]_vars

(***************************************************************************)
(* One upload of a Table, then one download of the same sheet with header  *)
(* row 0, on a sheet that is fresh or holds the data of an earlier upload  *)
(* (of a one-column or of a two-column Table).                             *)
(***************************************************************************)
ColumnNames == <<"A", "B", "C", "D">>
TableCells == {PyStr("x"), PyInt(1)}

\* DataFrames of w >= 1 named columns and r rows.
Tables ==
    UNION {{[columns |-> [j \in 1..w |-> PyStr(ColumnNames[j])], rows |-> rows] :
              rows \in SeqsUpTo([1..w -> TableCells], MaxRows)} : w \in 1..MaxCols}

PriorGrids == {<<>>, <<<<"A">>, <<"1">>>>, <<<<"A", "B">>, <<"1", "x">>, <<"2", "y">>>>}

InitRoundTrip ==
    /\ variant \in {"sync", "async"}
    /\ sheets = <<[title |-> "test", sheetId |-> 0]>>
    /\ \E g \in PriorGrids : cells = [t \in SheetNames |-> IF t = "test" THEN g ELSE <<>>]
    /\ folder = <<>>
    /\ op = Idle
    /\ prev = [op |-> Idle, result |-> NotCalled]
    /\ local = NoLocal
    /\ requests = <<>>
    /\ result = NotCalled
    /\ ReadyConnection

UploadTable ==
    /\ op = Idle
    /\ \E df \in Tables, drop_columns \in BOOLEAN, o \in ValueInputOptions :
          upload(df, "test", drop_columns, o, Ok)

DownloadBack ==
    /\ op.name = "upload"
    /\ \E response \in ValuesGetResponses(cells["test"]) :
          download("test", PyInt(0), Ok, response)

NextRoundTrip == UploadTable \/ DownloadBack

SpecRoundTrip == InitRoundTrip /\ [][NextRoundTrip]_vars

(***************************************************************************)
(* Uploads of Tables with cells of every type, under every value input     *)
(* option, by every revision, against a service that may fail.             *)
(***************************************************************************)
MixedCells ==
    {None, PyStr("x"), PyInt(1), PyDate(2024, 1, 5), PyDecimal("0.10"),
     PyDecimal("2.00000000000000000001")}

MixedTables ==
    {[columns |-> <<PyStr("A")>>, rows |-> rows] :
        rows \in SeqsUpTo([1..1 -> MixedCells], MaxRows)}

InitUpload ==
    /\ variant \in Variants
    /\ sheets = <<[title |-> "test", sheetId |-> 0]>>
    /\ cells = [t \in SheetNames |-> <<>>]
    /\ folder = <<>>
    /\ op = Idle
    /\ prev = [op |-> Idle, result |-> NotCalled]
    /\ local = NoLocal
    /\ requests = <<>>
    /\ result = NotCalled
    /\ ReadyConnection

UploadMixed ==
    /\ op = Idle
    /\ \E df \in MixedTables, drop_columns \in BOOLEAN, o \in ValueInputOptions :
          \E outcome \in {Ok, Timeout, Http(500)} :
             upload(df, "test", drop_columns, o, outcome)

NextUpload == UploadMixed \/ UploadRetry

SpecUpload == InitUpload /\ [][NextUpload]_vars

(***************************************************************************)
(* Listings of every folder.                                               *)
(***************************************************************************)
FileIds == {"f1", "f2"}
File(id) == [id |-> id, name |-> id \o ".csv"]
Pages == SeqsUpTo({File(id) : id \in FileIds}, MaxPageSize)
Folders == SeqsUpTo(Pages, MaxPages) \ {<<>>}

InitFiles ==
    /\ variant \in {"sync", "async"}
    /\ sheets = <<[title |-> "test", sheetId |-> 0]>>
    /\ cells = [t \in SheetNames |-> <<>>]
    /\ folder \in Folders
    /\ op = Idle
    /\ prev = [op |-> Idle, result |-> NotCalled]
    /\ local = NoLocal
    /\ requests = <<>>
    /\ result = NotCalled
    /\ ReadyConnection

ListFirstPage ==
    /\ op = Idle
    /\ \E outcome \in Outcomes, response \in FilesListResponses(None) :
          get_all_files_in_folder(outcome, response)

ListNextPage ==
    \E outcome \in Outcomes :
       \E response \in FilesListResponses(IF local.pc = "list" THEN local.page_token ELSE None) :
          list_next_page(outcome, response)

NextFiles == ListFirstPage \/ ListNextPage

SpecFiles == InitFiles /\ [][NextFiles]_vars

(***************************************************************************)
(* A connection used for any sequence of operations against a service that *)
(* may fail any request.                                                   *)
(***************************************************************************)
SomeTables == {[columns |-> <<PyStr("A")>>, rows |-> <<<<PyInt(1)>>>>]}

Init ==
    /\ variant \in Variants
    /\ sheets = <<[title |-> "test", sheetId |-> 0]>>
    /\ cells = [t \in SheetNames |-> <<>>]
    /\ folder = <<<<File("f1")>>, <<File("f2")>>>>
    /\ op = Idle
    /\ prev = [op |-> Idle, result |-> NotCalled]
    /\ local = NoLocal
    /\ requests = <<>>
    /\ result = NotCalled
    /\ ReadyConnection

Download ==
    \E header \in {None, PyInt(0)}, outcome \in Outcomes :
       \E response \in ValuesGetResponses(cells["test"]) :
          download("test", header, outcome, response)

Upload ==
    \E df \in SomeTables, drop_columns \in BOOLEAN, outcome \in Outcomes :
       upload(df, "test", drop_columns, "RAW", outcome)

GetSheetsNames == \E outcome \in Outcomes : get_sheets_names(outcome)

CreateSheet == \E sheet_name \in SheetNames, outcome \in Outcomes : create_sheet(sheet_name, outcome)

GetAllFilesInFolder ==
    \E outcome \in Outcomes, response \in FilesListResponses(None) :
       get_all_files_in_folder(outcome, response)

Next ==
    \/ Download
    \/ Upload
    \/ UploadRetry
    \/ GetSheetsNames
    \/ CreateSheet
    \/ GetAllFilesInFolder
    \/ ListNextPage

Spec == Init /\ [][Next]_vars

(***************************************************************************)
(* Connections of either credential variant, over every content of the    *)
(* token store and every answer of the authorization server, used for any  *)
(* sequence of operations.                                                 *)
(***************************************************************************)
TokenFiles == {None} \cup {Credential(t, e, r) : t \in BOOLEAN, e \in BOOLEAN, r \in BOOLEAN}

InitCreds ==
    /\ variant \in Variants
    /\ token_dir \in (IF variant = "legacy" THEN {TokenPath} ELSE {None, TokenPath})
    /\ token_file \in TokenFiles
    /\ sheets = <<[title |-> "test", sheetId |-> 0]>>
    /\ cells = [t \in SheetNames |-> IF t = "test" THEN <<<<"A">>, <<"1">>>> ELSE <<>>]
    /\ folder = <<<<File("f1")>>, <<File("f2")>>>>
    /\ op = Idle
    /\ prev = [op |-> Idle, result |-> NotCalled]
    /\ local = NoLocal
    /\ requests = <<>>
    /\ result = NotCalled
    /\ auth = <<>>
    /\ sessions = Sessions(0, 0)
    /\ aiogoogle = None
    /\ active_session = None
    /\ tasks = [t \in TaskIds |-> IdleTask]

DownloadOk ==
    \E response \in ValuesGetResponses(cells["test"]) : download("test", PyInt(0), Ok, response)

UploadOk == \E df \in SomeTables : upload(df, "test", FALSE, "RAW", Ok)

GetSheetsNamesOk == get_sheets_names(Ok)

CreateSheetOnce == \E outcome \in {Ok, Http(400)} : create_sheet("test2", outcome)

GetAllFilesInFolderOk ==
    \E response \in FilesListResponses(None) : get_all_files_in_folder(Ok, response)

NextCreds ==
    \/ DownloadOk
    \/ UploadOk
    \/ GetSheetsNamesOk
    \/ CreateSheetOnce
    \/ GetAllFilesInFolderOk
    \/ ListNextPage

SpecCreds == InitCreds /\ [][NextCreds]_vars

(***************************************************************************)
(* Downloads issued concurrently on one AsyncDriveConnection, as           *)
(* asyncio.gather runs them, some of them cancelled.                       *)
(***************************************************************************)
InitAsync ==
    /\ variant = "async"
    /\ token_dir \in {None, TokenPath}
    /\ token_file \in (IF token_dir = None THEN {None}
                       ELSE {Credential(TRUE, FALSE, TRUE), Credential(TRUE, TRUE, TRUE)})
    /\ sheets = <<[title |-> "test", sheetId |-> 0], [title |-> "test2", sheetId |-> 1]>>
    /\ cells = [t \in SheetNames |-> IF t = "test" THEN <<<<"A">>, <<"1">>>>
                                     ELSE <<<<"B">>, <<"2">>>>]
    /\ folder = <<>>
    /\ op = Idle
    /\ prev = [op |-> Idle, result |-> NotCalled]
    /\ local = NoLocal
    /\ requests = <<>>
    /\ result = NotCalled
    /\ auth = <<>>
    /\ sessions = Sessions(0, 0)
    /\ aiogoogle = None
    /\ active_session = None
    /\ tasks = [t \in TaskIds |-> IdleTask]

DownloadBegin ==
    \E t \in TaskIds, sheet_name \in SheetNames : download_begin(t, sheet_name, PyInt(0))

DownloadDiscovered == \E t \in TaskIds, answer \in {Ok, Http(500), Closed} : download_discovered(t, answer)

DownloadEnd ==
    \E t \in TaskIds, answer \in {Ok, Http(500), Closed} :
       \E response \in ValuesGetResponses(cells[IF tasks[t].pc = "get" THEN tasks[t].sheet_name
                                                ELSE "test"]) :
          download_end(t, answer, response)

DownloadCancel == \E t \in TaskIds : download_cancel(t)

NextAsync == DownloadBegin \/ DownloadDiscovered \/ DownloadEnd \/ DownloadCancel

SpecAsync == InitAsync /\ [][NextAsync]_vars

(***************************************************************************)
(* Properties of download.                                                 *)
(***************************************************************************)
\* The download called last got a response from the service.
Downloaded ==
    /\ op.name = "download"
    /\ variant \in {"sync", "async"}
    /\ requests[1].outcome = Ok

\* The rows of that response, read off the response itself.
ResponseRows ==
    IF "values" \in DOMAIN requests[1].response THEN requests[1].response.values ELSE <<>>

\* C1: whenever the values.get response holds no rows (the 'values' key is
\* missing or empty), download raises 'Empty data', whatever the header
\* argument is; it returns no Table.
C1_EmptyResponseRaises ==
    (Downloaded /\ ResponseRows = <<>>) => result = RaisedError("Empty data")

C1_Witness ==
    /\ Downloaded
    /\ "values" \notin DOMAIN requests[1].response
    /\ op.header = None
    /\ result = RaisedError("Empty data")

\* The header index of the download called last, when it names a row of the response.
HeaderInRange ==
    /\ Downloaded
    /\ op.header # None
    /\ op.header.int + 1 <= Len(ResponseRows)

HeaderRow == ResponseRows[op.header.int + 1]
DataRows == Slice(ResponseRows, op.header.int + 2, Len(ResponseRows))
WidestDataRow == Max({0} \cup {Len(DataRows[r]) : r \in 1..Len(DataRows)})

\* C6: with a header index h and some row after h wider than row h, the
\* returned Table has as many columns as the widest data row; its first
\* columns carry row h's names in order and the column at offset i past the
\* header's width is named 'Unknown i'.
C6_UnknownColumns ==
    (HeaderInRange /\ WidestDataRow > Len(HeaderRow)) =>
        /\ result.kind = "returned"
        /\ Len(result.value.columns) = WidestDataRow
        /\ \A j \in 1..Len(HeaderRow) : result.value.columns[j] = PyStr(HeaderRow[j])
        /\ \A i \in 0..(WidestDataRow - Len(HeaderRow) - 1) :
              result.value.columns[Len(HeaderRow) + i + 1] = PyStr("Unknown " \o ToString(i))
        /\ \A r \in 1..Len(result.value.rows) : Len(result.value.rows[r]) = WidestDataRow

C6_Witness ==
    /\ HeaderInRange
    /\ Len(HeaderRow) = 0
    /\ WidestDataRow = 2
    /\ result.kind = "returned"
    /\ result.value.columns = <<PyStr("Unknown 0"), PyStr("Unknown 1")>>

\* C7: with a header index h, 0 <= h < number of grid rows, download returns
\* a Table whose names are row h, whose data rows are exactly the rows after
\* h in grid order (rows before h dropped), (grid rows - h - 1) of them; with
\* no row after h the Table is empty and carries row h's names.
C7_HeaderSplit ==
    HeaderInRange =>
        /\ result.kind = "returned"
        /\ Len(result.value.rows) = Len(ResponseRows) - op.header.int - 1
        /\ \A j \in 1..Len(HeaderRow) : result.value.columns[j] = PyStr(HeaderRow[j])
        /\ \A r \in 1..Len(DataRows) : \A j \in 1..Len(DataRows[r]) :
              result.value.rows[r][j] = PyStr(DataRows[r][j])

\* C8: with header=None and a response that holds rows, download does not
\* raise; the Table has one row per grid row, the first included, in grid
\* order, and its columns are named 0, 1, ... by position.
C8_HeaderlessTable ==
    (Downloaded /\ op.header = None /\ ResponseRows # <<>>) =>
        /\ result.kind = "returned"
        /\ Len(result.value.rows) = Len(ResponseRows)
        /\ \A r \in 1..Len(ResponseRows) : \A j \in 1..Len(ResponseRows[r]) :
              result.value.rows[r][j] = PyStr(ResponseRows[r][j])
        /\ \A j \in 1..Len(result.value.columns) : result.value.columns[j] = PyInt(j - 1)
        /\ Len(result.value.columns) =
              Max({0} \cup {Len(ResponseRows[r]) : r \in 1..Len(ResponseRows)})

C8_Witness ==
    /\ Downloaded
    /\ op.header = None
    /\ Len(ResponseRows) = 3
    /\ result.kind = "returned"
    /\ Len(result.value.rows) = 3
    /\ result.value.rows[1] = <<PyStr("a"), PyStr("b")>>

\* C20: with a header index and at least one data row, when every data row
\* has fewer cells than the header row the assignment of the names fails and
\* download raises instead of returning a Table padded to the header's
\* width; a Table comes back only when there is no data row or the widest
\* data row is at least as wide as the header row.
C20_RaggedRaises ==
    /\ (HeaderInRange /\ Len(DataRows) >= 1 /\ WidestDataRow < Len(HeaderRow)) =>
          result = RaisedError("ValueError")
    /\ (Downloaded /\ op.header # None /\ result.kind = "returned") =>
          /\ HeaderInRange
          /\ Len(DataRows) = 0 \/ WidestDataRow >= Len(HeaderRow)

C20_Witness ==
    /\ HeaderInRange
    /\ op.header = PyInt(0)
    /\ ResponseRows = <<<<"a", "b">>, <<"a">>, <<"b">>>>
    /\ result = RaisedError("ValueError")

(***************************************************************************)
(* Properties of upload.                                                   *)
(***************************************************************************)
\* str(x) of a Table cell.
AsString(x) == IF "int" \in DOMAIN x THEN PyStr(ToString(x.int)) ELSE x

\* The download called last reads the sheet that the operation before it,
\* an upload with the column-name row, has written.
ReadBack ==
    /\ op.name = "download"
    /\ op.header = PyInt(0)
    /\ requests[1].outcome = Ok
    /\ prev.op.name = "upload"
    /\ prev.op.sheet_name = op.sheet_name
    /\ ~prev.op.drop_columns
    /\ prev.result = Returned(None)

\* C2: upload(T) followed by download of the same sheet with header row 0
\* returns T's column names in order and T's rows with every cell coerced to
\* string, also on a sheet that held data before the upload.
C2_RoundTrip ==
    ReadBack =>
        /\ result.kind = "returned"
        /\ result.value.columns = prev.op.df.columns
        /\ Len(result.value.rows) = Len(prev.op.df.rows)
        /\ \A r \in 1..Len(prev.op.df.rows) :
              result.value.rows[r] =
                 [j \in 1..Len(prev.op.df.rows[r]) |-> AsString(prev.op.df.rows[r][j])]

\* The upload called last has sent its first request.
Uploaded == op.name = "upload" /\ Len(requests) >= 1

\* C10: the grid of upload's request is the column-name row followed by one
\* row per record, in record and column order, (records + 1) rows in all,
\* when drop_columns is false; it is exactly the record rows when
\* drop_columns is true.
C10_Serialization ==
    (Uploaded /\ variant \in {"sync", "async"}) =>
        \A k \in 1..Len(requests) :
           LET values == requests[k].body.values
           IN  IF op.drop_columns
               THEN values = op.df.rows
               ELSE /\ Len(values) = Len(op.df.rows) + 1
                    /\ values[1] = op.df.columns
                    /\ \A r \in 1..Len(op.df.rows) : values[r + 1] = op.df.rows[r]

C10_Witness ==
    /\ Uploaded
    /\ variant = "async"
    /\ op.drop_columns
    /\ Len(op.df.rows) = 2
    /\ Len(op.df.columns) = 2
    /\ requests[1].body.values = op.df.rows

\* C3: a socket timeout of an update attempt is retried exactly once; a second
\* timeout is raised to the caller; one upload issues at most two attempts;
\* an error other than a socket timeout is not retried.
C3_RetryOnce ==
    op.name = "upload" =>
        /\ Len(requests) <= 2
        /\ (requests[1].outcome = Timeout) => (result = Running \/ Len(requests) = 2)
        /\ (Len(requests) >= 2 /\ requests[2].outcome = Timeout) => result = Raised(Timeout)
        /\ \A k \in 1..Len(requests) :
              requests[k].outcome \notin {Ok, Timeout} =>
                 (k = Len(requests) /\ result.kind # "running")

\* C11: the value_input_option that upload was called for is the
\* valueInputOption of every update request it issues, retried ones included;
\* no upload path puts a fixed value in its place.
C11_ValueInputOption ==
    Uploaded =>
        \A k \in 1..Len(requests) : requests[k].valueInputOption = op.value_input_option

\* The rows of request k of the upload called last, without the column-name row.
SentRows(k) ==
    IF op.drop_columns THEN requests[k].body.values ELSE Tail(requests[k].body.values)

\* C12: in every update request of upload each cell of the Table has gone out
\* normalized: the empty string for a null, its ISO string for a date, a
\* float for a Decimal, itself otherwise; the grid holds no null, no date and
\* no Decimal.
C12_Normalization ==
    (Uploaded /\ variant \in {"sync", "async"}) =>
        \A k \in 1..Len(requests) :
           /\ Len(SentRows(k)) = Len(op.df.rows)
           /\ \A r \in 1..Len(op.df.rows) : \A j \in 1..Len(op.df.rows[r]) :
                 LET x == op.df.rows[r][j]
                     y == SentRows(k)[r][j]
                 IN  /\ x = None => y = PyStr("")
                     /\ x = PyDate(2024, 1, 5) => y = PyStr("2024-01-05")
                     /\ x = PyDecimal("0.10") => y = PyFloat("0.1")
                     /\ x = PyDecimal("2.00000000000000000001") => y = PyFloat("2.0")
                     /\ x \in {PyStr("x"), PyInt(1)} => y = x
           /\ \A r \in 1..Len(requests[k].body.values) :
                 \A j \in 1..Len(requests[k].body.values[r]) :
                    LET y == requests[k].body.values[r][j]
                    IN  /\ y # None
                        /\ "date" \notin DOMAIN y
                        /\ "decimal" \notin DOMAIN y

C12_Witness ==
    /\ Uploaded
    /\ variant = "sync"
    /\ op.df.rows = <<<<None>>, <<PyDate(2024, 1, 5)>>>>
    /\ ~op.drop_columns
    /\ requests[1].body.values = <<<<PyStr("A")>>, <<PyStr("")>>, <<PyStr("2024-01-05")>>>>
    /\ requests[1].outcome = Ok

\* The cell at row i, column j of a stored grid; empty where the grid ends.
CellAt(grid, i, j) == IF i <= Len(grid) /\ j <= Len(grid[i]) THEN grid[i][j] ELSE ""

\* The download called last follows an upload to the same sheet that returned.
AfterUpload ==
    /\ op.name = "download"
    /\ requests[1].outcome = Ok
    /\ prev.op.name = "upload"
    /\ prev.op.sheet_name = op.sheet_name
    /\ prev.result = Returned(None)

\* Whether that upload's grid covered row i, column j.
Covered(i, j) ==
    /\ i <= Len(prev.op.df.rows) + (IF prev.op.drop_columns THEN 0 ELSE 1)
    /\ j <= Len(prev.op.df.columns)

\* C18: upload issues update requests only, no clear; a step that sends an
\* update leaves every cell outside the rectangle of the sent grid, and every
\* other sheet, as it was; and a download that follows the upload returns
\* each non-empty cell the upload did not cover (as a name when it lies in
\* row 0, as a data cell otherwise).
C18_StaleCellsKept ==
    /\ [](Uploaded => \A k \in 1..Len(requests) : requests[k].method = "values.update")
    /\ [][(op'.name = "upload" /\ Len(requests') > 0) =>
            LET values == requests'[Len(requests')].body.values
                s == op'.sheet_name
                n == Max({Len(cells[s]), Len(cells'[s])})
            IN  /\ \A t \in SheetNames \ {s} : cells'[t] = cells[t]
                /\ \A i \in 1..n : \A j \in 1..(MaxCols + MaxGridCols) :
                      (i > Len(values) \/ j > Len(values[i])) =>
                         CellAt(cells'[s], i, j) = CellAt(cells[s], i, j)]_vars
    /\ [](AfterUpload =>
            LET grid == cells[op.sheet_name]
            IN  \A i \in 1..Len(grid) : \A j \in 1..Len(grid[i]) :
                   (~Covered(i, j) /\ grid[i][j] # "") =>
                      /\ result.kind = "returned"
                      /\ IF i = 1 THEN result.value.columns[j] = PyStr(grid[i][j])
                         ELSE result.value.rows[i - 1][j] = PyStr(grid[i][j]))

(***************************************************************************)
(* Properties of error handling.                                           *)
(***************************************************************************)
\* C4: upload, download, get_sheets_names and get_all_files_in_folder never
\* return normally when their (last) remote call failed.
C4_NoSwallowedFailure ==
    (/\ op.name \in {"upload", "download", "get_sheets_names", "get_all_files_in_folder"}
     /\ result.kind = "returned")
        => requests[Len(requests)].outcome = Ok

\* The create_sheet called last.
Created == op.name = "create_sheet"

\* The same create_sheet was called just before and returned an identifier.
CreatedTwice ==
    /\ Created
    /\ prev.op = op
    /\ prev.result.kind = "returned"
    /\ prev.result.value # None

TitleCount(t) == Cardinality({i \in 1..Len(sheets) : sheets[i].title = t})

\* C5 as stated: any 4xx answer to create_sheet becomes the None result, any
\* other failure is raised, and a repeated create_sheet returns None.
C5_Any4xxIsNone ==
    Created =>
        LET o == requests[1].outcome
        IN  /\ (o.kind = "http" /\ o.status >= 400 /\ o.status < 500) => result = Returned(None)
            /\ (o.kind = "timeout" \/ (o.kind = "http" /\ o.status >= 500)) => result.kind = "raised"
            /\ CreatedTwice => result = Returned(None)

\* C5, amended: status 400 alone becomes the None result; a timeout and every
\* other status, 403 included, is raised; a call the service accepts returns
\* the new sheet's identifier; a create_sheet repeated after one that returned
\* an identifier is never accepted and returns None when the service answers
\* 400; and the spreadsheet gains a sheet only in a step of create_sheet that
\* returns the identifier of that sheet.
C5_Status400IsNone ==
    /\ [](Created =>
            LET o == requests[1].outcome
            IN  /\ o = Http(400) => result = Returned(None)
                /\ (o # Ok /\ o # Http(400)) => result = Raised(o)
                /\ o = Ok =>
                      /\ result.kind = "returned"
                      /\ result.value # None
                      /\ sheets[Len(sheets)] =
                            [title |-> op.sheet_name, sheetId |-> result.value.int]
                /\ CreatedTwice => (o # Ok /\ TitleCount(op.sheet_name) = 1))
    /\ [][sheets' # sheets =>
            /\ op'.name = "create_sheet"
            /\ result'.kind = "returned"
            /\ result'.value # None
            /\ sheets' = Append(sheets, [title |-> op'.sheet_name,
                                         sheetId |-> result'.value.int])]_vars

C5_Witness ==
    /\ CreatedTwice
    /\ op.sheet_name = "test2"
    /\ prev.result = Returned(PyInt(1))
    /\ requests[1].outcome = Http(400)
    /\ result = Returned(None)
    /\ Len(sheets) = 2

(***************************************************************************)
(* Properties of sessions.                                                 *)
(***************************************************************************)
\* C13: with the synchronous DriveConnection, when an operation has returned
\* or raised, every session it built has been closed: none is left open by
\* download, upload, get_sheets_names, create_sheet (its None result
\* included) or get_all_files_in_folder.
C13_SessionsClosed ==
    (variant = "sync" /\ op.name # "none" /\ result.kind \in {"returned", "raised"}) =>
        sessions.built = sessions.closed

(***************************************************************************)
(* Properties of credential resolution.                                    *)
(***************************************************************************)
\* The places in `auth` where a resolution of the user credential starts.
Resolutions == {i \in 1..Len(auth) : auth[i].event = "exists"}

\* The credential that resolution i found in the token store, None without a file.
Stored(i) == IF auth[i].found THEN auth[i + 1].creds ELSE None

\* The entries of `auth` that belong to resolution i.
Steps(i) ==
    {k \in i..Len(auth) : \A j \in (i + 1)..k : auth[j].event # "exists"}

Did(i, event) == \E k \in Steps(i) : auth[k].event = event

Succeeded(i, event) == \E k \in Steps(i) : auth[k].event = event /\ auth[k].ok

\* C15: a user-credential resolution that finds the stored credential absent
\* or invalid while a refresh token is available refreshes and does not run
\* the interactive consent flow; the consent flow runs only when no refresh
\* token is available.
C15_RefreshBeforeConsent ==
    \A i \in Resolutions :
       LET creds == Stored(i)
           available == creds # None /\ creds.refresh_token
       IN  /\ ((creds = None \/ ~Valid(creds)) /\ available) =>
                 (Did(i, "refresh") /\ ~Did(i, "run_local_server"))
           /\ Did(i, "run_local_server") => ~available

\* The entries that the step from the current state adds to `auth`.
NewAuth ==
    IF result.kind = "running" THEN SubSeq(auth', Len(auth) + 1, Len(auth')) ELSE auth'

\* C16: a user-credential resolution writes the token store exactly when its
\* refresh or its consent succeeded, after it, and with the new credential;
\* the file keeps its content in a step without such a success (the loaded
\* credential was valid, or the exchange failed).
C16_TokenStoreWrites ==
    /\ [](\A i \in Resolutions :
            /\ Did(i, "write") <=> (Succeeded(i, "refresh") \/ Succeeded(i, "run_local_server"))
            /\ \A k \in Steps(i) :
                  auth[k].event = "write" =>
                     /\ k > i
                     /\ auth[k - 1].event \in {"refresh", "run_local_server"}
                     /\ auth[k - 1].ok
                     /\ Valid(auth[k].creds)
                     /\ auth[k].creds # Stored(i))
    /\ [][LET written == {k \in 1..Len(NewAuth) : NewAuth[k].event = "write"}
          IN  IF written = {} THEN token_file' = token_file
              ELSE token_file' = NewAuth[Max(written)].creds]_vars

C16_Witness ==
    /\ op.name = "get_sheets_names"
    /\ variant = "sync"
    /\ auth = <<Exists(TRUE), Loaded(Credential(TRUE, TRUE, TRUE)), Refresh(TRUE),
                Write(Credential(TRUE, FALSE, TRUE))>>
    /\ token_file = Credential(TRUE, FALSE, TRUE)
    /\ result.kind = "returned"

InFlight(t) == tasks[t].pc \in {"discover", "get"}

\* C14: while a download has a request in flight the session it was sent on
\* is still the client's open session: no other download's completion,
\* failure or cancellation has released it; and every download that was not
\* cancelled and whose requests the service answered returns the Table of
\* its own sheet.
C14_SharedSessionStaysOpen ==
    \A t \in TaskIds :
       /\ InFlight(t) => active_session = tasks[t].session
       /\ (tasks[t].pc = "done" /\ tasks[t].answered) =>
             tasks[t].result = DownloadTable(Trim(cells[tasks[t].sheet_name]), tasks[t].header)

\* The calls of _get_aiogoogle that returned a client, as places in `auth`.
Calls == {i \in 1..Len(auth) : auth[i].event = "_get_aiogoogle"}

\* C19: every call of _get_aiogoogle after the first that returned a client
\* returns that same client, and nothing loads credentials after that first
\* call; the memoized client, once there, is never replaced.
C19_ClientBuiltOnce ==
    /\ [](\A i \in Calls :
            /\ auth[i].client = aiogoogle
            /\ \A k \in (i + 1)..Len(auth) :
                  /\ auth[k].event = "_get_aiogoogle"
                  /\ auth[k].client = auth[i].client)
    /\ [][aiogoogle # None => aiogoogle' = aiogoogle]_vars

C19_Witness ==
    /\ token_dir = TokenPath
    /\ auth = <<Exists(TRUE), Loaded(Credential(TRUE, TRUE, TRUE)), Refresh(TRUE),
                Write(Credential(TRUE, FALSE, TRUE)),
                GotClient(2, Client("user", 2)), GotClient(1, Client("user", 2))>>
    /\ aiogoogle = Client("user", 2)
    /\ InFlight(1)

(***************************************************************************)
(* Properties of get_all_files_in_folder.                                  *)
(***************************************************************************)
RECURSIVE Flatten(_)
Flatten(pages) == IF pages = <<>> THEN <<>> ELSE Head(pages) \o Flatten(Tail(pages))

NoDuplicates(seq) == \A i, j \in 1..Len(seq) : seq[i] = seq[j] => i = j

\* C9: the first files.list request carries no page token, each later one the
\* token of the response before it, and the response without a token is the
\* last; a listing that returns has issued one request per page and returns
\* the pages' files in the order the service emitted them, each once when the
\* service emitted each once.
C9_Pagination ==
    op.name = "get_all_files_in_folder" =>
        /\ requests[1].pageToken = None
        /\ \A k \in 2..Len(requests) :
              /\ requests[k - 1].outcome = Ok
              /\ "nextPageToken" \in DOMAIN requests[k - 1].response
              /\ requests[k].pageToken = requests[k - 1].response.nextPageToken
        /\ \A k \in 1..Len(requests) :
              (requests[k].outcome = Ok /\ "nextPageToken" \notin DOMAIN requests[k].response)
                 => (k = Len(requests) /\ result.kind = "returned")
        /\ result.kind = "returned" =>
              /\ Len(requests) = Len(folder)
              /\ \A k \in 1..Len(requests) : requests[k].outcome = Ok
              /\ result.value = PyList(Flatten(folder))
              /\ NoDuplicates(Flatten(folder)) => NoDuplicates(result.value.list)

C9_Witness ==
    /\ op.name = "get_all_files_in_folder"
    /\ folder = <<<<File("f1")>>, <<>>, <<File("f2")>>>>
    /\ Len(requests) = 3
    /\ result = Returned(PyList(<<File("f1"), File("f2")>>))

(***************************************************************************)
(* Properties of the first revision's retry.                               *)
(***************************************************************************)
\* C21: in the first revision's upload every update request sent again after
\* a socket timeout has the range and the grid of the first request; when
\* upload was called with drop_columns set, a request sent again holds the
\* cell rows only, no row of column names.
C21_RetrySameGrid ==
    (Uploaded /\ variant = "legacy") =>
        \A k \in 2..Len(requests) :
           /\ requests[k].range = requests[1].range
           /\ requests[k].body.values = requests[1].body.values
           /\ op.drop_columns =>
                 Len(requests[k].body.values) = Len(op.df.rows)
====
